---- MODULE Spec2Model ----
(***************************************************************************)
(* Bookstore order pricing: discount assignment rules (Store), order       *)
(* placement (Customer.place_order) and the pricing calculation            *)
(* (Order.calculate_total_price) of bookstore.py.                          *)
(*                                                                         *)
(* A Python float is kept as the binary64 value it is: sign, 53-bit        *)
(* mantissa (four limbs of 14 bits, lowest first) and exponent, value      *)
(* (-1)^sign * mant * 2^exp; every operation rounds to nearest, ties to    *)
(* the even mantissa, as the hardware does.  Exponent range, infinities    *)
(* and NaN are left out.  A str whose characters are looked at (a          *)
(* location) is the sequence of its code points; Discount.author_specific  *)
(* is <<>> for None and <<s>> for the str s.  Time is kept in seconds      *)
(* since 2023-01-01 00:00:00, a date as days since 2023-01-01.  A Discount *)
(* object is identified by its id (select_discount returns the first       *)
(* object of an id, so a customer only ever holds that object); the        *)
(* reference None is NoneRef.                                              *)
(*                                                                         *)
(* The program has a single thread and starts none: an operation runs from *)
(* its call to its return or raise, the geocoder call of line 133          *)
(* included, and no other operation of the store runs meanwhile.  What     *)
(* does go on meanwhile is the clock: every datetime.now() of an operation *)
(* is a reading of its own, and the readings of one operation may differ.  *)
(***************************************************************************)
EXTENDS Integers, Sequences, FiniteSets, TLC

\* ------------------------------------------------------------------ bounds
\* Longest customer.discounts list the rules may build.
MaxHeld == 2
\* A pricing calculation is explored while every nb_usage is above -MaxOveruse.
MaxOveruse == 1

\* --------------------------------------------------------------- calendar
EpochYear == 2023
SecondsPerDay == 86400
TenureDays == 365
BlackFridayMonth == 11
BlackFridayDay == 24
FreeShippingThreshold == 50

IsLeap(y) == (y % 4 = 0 /\ y % 100 # 0) \/ y % 400 = 0

DaysInYear(y) == IF IsLeap(y) THEN 366 ELSE 365

DaysInMonth(y, m) ==
    IF m = 2 THEN (IF IsLeap(y) THEN 29 ELSE 28)
    ELSE IF m \in {4, 6, 9, 11} THEN 30 ELSE 31

RECURSIVE DaysBeforeMonth(_, _)
DaysBeforeMonth(y, m) ==
    IF m = 1 THEN 0 ELSE DaysBeforeMonth(y, m - 1) + DaysInMonth(y, m - 1)

RECURSIVE DaysBeforeYear(_)
DaysBeforeYear(y) ==
    IF y = EpochYear THEN 0 ELSE DaysBeforeYear(y - 1) + DaysInYear(y - 1)

\* date(y, m, d) as days since the epoch
DateOrdinal(y, m, d) == DaysBeforeYear(y) + DaysBeforeMonth(y, m) + (d - 1)

RECURSIVE YearFrom(_, _)
YearFrom(ord, y) ==
    IF ord < DaysInYear(y) THEN y ELSE YearFrom(ord - DaysInYear(y), y + 1)

\* today.year
YearOf(today) == YearFrom(today, EpochYear)

\* datetime.now().date()
DateOf(t) == t \div SecondsPerDay

\* datetime(y, m, d, hh, 0, 0) as seconds since the epoch
At(y, m, d, hh) == DateOrdinal(y, m, d) * SecondsPerDay + hh * 3600

\* The instants at which operations are run: 23 Nov 12:00, 24 Nov 00:00,
\* 25 Nov 00:00 of the epoch year.
Instants == {At(EpochYear, 11, 23, 12), At(EpochYear, 11, 24, 0), At(EpochYear, 11, 25, 0)}

\* The same, and 24 Nov 18:00 and 25 Nov 00:00 of the year after.
InstantsTwoYears ==
    Instants \cup {At(EpochYear + 1, 11, 24, 18), At(EpochYear + 1, 11, 25, 0)}

\* 23 Nov 12:00, 25 Nov 00:00 and 26 Nov 00:00 of the epoch year.
InstantsLater == {At(EpochYear, 11, 23, 12), At(EpochYear, 11, 25, 0), At(EpochYear, 11, 26, 0)}

FirstInstant == CHOOSE t \in Instants : \A u \in Instants : t <= u

\* ------------------------------------------------------------------ float
\* bits of a limb, limbs of a mantissa, limbs of an intermediate result
LimbBits == 14
MantissaBits == 53
MantissaLimbs == 4
Wide == 9
\* the largest exponent difference at which the smaller operand of a sum can
\* still change the rounded result
MaxAlign == 64
\* binary digits kept when a decimal literal is divided out
DecimalGuard == 70

Limb == 2^LimbBits

\* limb i of N, 0 where N has none
LimbAt(N, i) == IF i \in 1..Len(N) THEN N[i] ELSE 0

Widen(m) == [i \in 1..Wide |-> LimbAt(m, i)]

\* the natural n < 2^31 as limbs
NatLimbs(n) == [i \in 1..Wide |-> IF i <= 3 THEN (n \div Limb^(i - 1)) % Limb ELSE 0]

\* the limbs of the columns cols, carries (or borrows) taken over
RECURSIVE Carry(_, _, _)
Carry(cols, i, c) ==
    IF i > Wide THEN <<>>
    ELSE <<(cols[i] + c) % Limb>> \o Carry(cols, i + 1, (cols[i] + c) \div Limb)

AddLimbs(N, M) == Carry([i \in 1..Wide |-> N[i] + M[i]], 1, 0)

\* N - M, for N >= M
SubLimbs(N, M) == Carry([i \in 1..Wide |-> N[i] - M[i]], 1, 0)

\* N * k, for k < 2^16
MulSmall(N, k) == Carry([i \in 1..Wide |-> N[i] * k], 1, 0)

\* -1, 0, 1 as N is below, equal to, above M
CmpLimbs(N, M) ==
    LET diff == {i \in 1..Wide : N[i] # M[i]}
    IN  IF diff = {} THEN 0
        ELSE LET top == CHOOSE i \in diff : \A j \in diff : j <= i
             IN  IF N[top] < M[top] THEN -1 ELSE 1

\* number of bits of the natural N
BitLen(N) ==
    LET nz == {i \in 1..Wide : N[i] # 0}
    IN  IF nz = {} THEN 0
        ELSE LET top == CHOOSE i \in nz : \A j \in nz : j <= i
                 len == CHOOSE n \in 1..LimbBits : 2^(n - 1) <= N[top] /\ N[top] < 2^n
             IN  (top - 1) * LimbBits + len

\* bit i of N, bit 0 the lowest
Bit(N, i) == (LimbAt(N, i \div LimbBits + 1) \div 2^(i % LimbBits)) % 2

\* N \div 2^k
ShiftRight(N, k) ==
    LET a == k \div LimbBits
        b == k % LimbBits
    IN  [i \in 1..Wide |->
            (LimbAt(N, i + a) \div 2^b) + (LimbAt(N, i + a + 1) % 2^b) * 2^(LimbBits - b)]

\* N * 2^k, for a product below 2^(Wide * LimbBits)
ShiftLeft(N, k) ==
    LET a == k \div LimbBits
        b == k % LimbBits
    IN  [i \in 1..Wide |->
            (LimbAt(N, i - a) % 2^(LimbBits - b)) * 2^b
                + (LimbAt(N, i - a - 1) \div 2^(LimbBits - b))]

\* N / 2^k rounded to the nearest natural, a tie to the even one
ShiftRound(N, k) ==
    IF k = 0 THEN N
    ELSE IF k > BitLen(N) + 1 THEN Widen(<<>>)
    ELSE LET q == ShiftRight(N, k)
             guard == Bit(N, k - 1) = 1
             sticky == ShiftLeft(ShiftRight(N, k - 1), k - 1) # N
             up == guard /\ (sticky \/ q[1] % 2 = 1)
         IN  IF up THEN AddLimbs(q, NatLimbs(1)) ELSE q

\* 0.0, and the int 0 where Python goes on with float arithmetic
FZero == [sign |-> 0, mant |-> <<0, 0, 0, 0>>, exp |-> 0]

Mant(N) == <<N[1], N[2], N[3], N[4]>>

\* the float nearest to (-1)^sign * N * 2^e, a tie to the even mantissa
RoundNat(sign, N, e) ==
    LET len == BitLen(N)
    IN  IF len = 0 THEN FZero
        ELSE IF len <= MantissaBits
        THEN [sign |-> sign, mant |-> Mant(ShiftLeft(N, MantissaBits - len)),
              exp |-> e - (MantissaBits - len)]
        ELSE LET k == len - MantissaBits
                 q == ShiftRound(N, k)
             IN  IF BitLen(q) > MantissaBits
                 THEN [sign |-> sign, mant |-> Mant(ShiftRight(q, 1)), exp |-> e + k + 1]
                 ELSE [sign |-> sign, mant |-> Mant(q), exp |-> e + k]

IsZero(x) == x.mant = FZero.mant

\* float(n) of an int n, |n| < 2^31
FloatOfInt(n) ==
    IF n >= 0 THEN RoundNat(0, NatLimbs(n), 0) ELSE RoundNat(1, NatLimbs(0 - n), 0)

\* <<N \div k, N % k>> for k < Limb, over the limbs i down to 1, r carried in
RECURSIVE DivSmall(_, _, _, _)
DivSmall(N, k, i, r) ==
    IF i = 0 THEN <<<<>>, r>>
    ELSE LET cur == r * Limb + N[i]
             rest == DivSmall(N, k, i - 1, cur % k)
         IN  <<Append(rest[1], cur \div k), rest[2]>>

\* float(s) of the decimal text s = n / den, n >= 0, den a power of ten < Limb
FloatOfDecimal(n, den) ==
    LET qr == DivSmall(ShiftLeft(NatLimbs(n), DecimalGuard), den, Wide, 0)
        q == ShiftLeft(qr[1], 1)
        N == IF qr[2] = 0 THEN q ELSE [q EXCEPT ![1] = q[1] + 1]
    IN  RoundNat(0, N, 0 - DecimalGuard - 1)

FNeg(x) == IF IsZero(x) THEN x ELSE [x EXCEPT !.sign = 1 - x.sign]

\* x * y
FMul(x, y) ==
    LET Col(k) ==
            LET T(i) == IF (k + 1 - i) \in 1..MantissaLimbs
                        THEN x.mant[i] * y.mant[k + 1 - i] ELSE 0
            IN  T(1) + T(2) + T(3) + T(4)
        N == Carry([k \in 1..Wide |-> Col(k)], 1, 0)
    IN  RoundNat((x.sign + y.sign) % 2, N, x.exp + y.exp)

\* x + y
FAdd(x, y) ==
    IF IsZero(x) THEN y
    ELSE IF IsZero(y) THEN x
    ELSE LET hi == IF x.exp >= y.exp THEN x ELSE y
             lo == IF x.exp >= y.exp THEN y ELSE x
             d == hi.exp - lo.exp
         IN  IF d > MaxAlign THEN hi
             ELSE LET A == ShiftLeft(Widen(hi.mant), d)
                      B == Widen(lo.mant)
                      c == CmpLimbs(A, B)
                  IN  IF hi.sign = lo.sign THEN RoundNat(hi.sign, AddLimbs(A, B), lo.exp)
                      ELSE IF c = 0 THEN FZero
                      ELSE IF c > 0 THEN RoundNat(hi.sign, SubLimbs(A, B), lo.exp)
                      ELSE RoundNat(lo.sign, SubLimbs(B, A), lo.exp)

\* x - y
FSub(x, y) == FAdd(x, FNeg(y))

\* |x| < |y|
MagLess(x, y) ==
    IF IsZero(y) THEN FALSE
    ELSE IF IsZero(x) THEN TRUE
    ELSE x.exp < y.exp \/ (x.exp = y.exp /\ CmpLimbs(Widen(x.mant), Widen(y.mant)) < 0)

\* x > y
FGreater(x, y) ==
    IF x.sign = 0 /\ y.sign = 0 THEN MagLess(y, x)
    ELSE IF x.sign = 1 /\ y.sign = 1 THEN MagLess(x, y)
    ELSE x.sign = 0 /\ ~(IsZero(x) /\ IsZero(y))

\* the natural N < 2^31 as an integer
NatOf(N) == N[1] + N[2] * Limb + N[3] * Limb * Limb

\* N * 10^digits
RECURSIVE TimesTen(_, _)
TimesTen(N, digits) == IF digits = 0 THEN N ELSE TimesTen(MulSmall(N, 10), digits - 1)

\* round(x, digits) as the integer round(x, digits) * 10^digits: the nearest
\* one to the value the float holds, a tie (which only a value the float
\* holds exactly can be) to the even one
RoundedAt(x, digits) ==
    IF IsZero(x) THEN 0
    ELSE LET N == TimesTen(Widen(x.mant), digits)
             q == IF x.exp >= 0 THEN ShiftLeft(N, x.exp) ELSE ShiftRound(N, 0 - x.exp)
         IN  IF x.sign = 0 THEN NatOf(q) ELSE 0 - NatOf(q)

\* round(x, 2), in cents
Round2(x) == RoundedAt(x, 2)

\* ---------------------------------------------------------------- strings
\* "berlin", "PARIS" (Location.BERLIN, Location.PARIS) and "bErLiN"
berlin == <<98, 101, 114, 108, 105, 110>>

PARIS == <<80, 65, 82, 73, 83>>

bErLiN == <<98, 69, 114, 76, 105, 78>>

\* c.lower() of one code point below 256: A-Z and the capital letters of
\* Latin-1 have their small letter 32 further on
LowerChar(c) ==
    IF c \in 65..90 \/ c \in 192..214 \/ c \in 216..222 THEN c + 32 ELSE c

\* s.lower() of a str of code points below 256
Lower(s) == [i \in 1..Len(s) |-> LowerChar(s[i])]

\* the locations given to discount_location
LocationArgs == {berlin, bErLiN, PARIS}

\* ------------------------------------------------------------ master data
NoneRef == 0

\* Discount.author_specific: None is <<>>, the str s is <<s>>
NoAuthor == <<>>

Customers == {"john_doe", "jane_roe"}

\* master_data.customers, in file order
CustomerList == <<"john_doe", "jane_roe">>

\* Customer.signup_date (days since the epoch; 2022-11-24 is -38)
signup_date == [c \in Customers |->
    IF c = "john_doe" THEN DateOrdinal(EpochYear, 11, 24) - 365
    ELSE DateOrdinal(EpochYear, 6, 1)]

\* Customer.location
location == [c \in Customers |-> IF c = "john_doe" THEN berlin ELSE PARIS]

Authors == {"Douglas Adams", "Frank Herbert"}

Titles == {"Hitchhiker", "Pamphlet", "Novella"}

\* the price column of books.csv, in cents: 25.00, 4.85, 15.05
PriceCents == [t \in Titles |->
    IF t = "Hitchhiker" THEN 2500 ELSE IF t = "Pamphlet" THEN 485 ELSE 1505]

\* Book.author, Book.price = float(row["price"])
Book == [t \in Titles |->
    [author |-> IF t = "Hitchhiker" THEN "Douglas Adams" ELSE "Frank Herbert",
     price |-> FloatOfDecimal(PriceCents[t], 100)]]

\* the (book, quantity) pairs orders are made of
H2 == [book |-> "Hitchhiker", quantity |-> 2]

P1 == [book |-> "Pamphlet", quantity |-> 1]

N3 == [book |-> "Novella", quantity |-> 3]

\* the lists given to place_order: a total of 50.00 exactly (2 * 25.00), one
\* author twice, two authors (10 % off 54.85 is 49.365: half a cent), and
\* 4.85 + 3 * 15.05, which is 50.00 and adds up to 50.00000000000001
OrderChoices == {<<H2>>, <<H2, H2>>, <<H2, P1>>, <<P1, N3>>}

\* two of them: one line, and two lines by two authors
FewOrders == {<<H2>>, <<H2, P1>>}

\* the customers who place orders
Shoppers == {"john_doe"}

\* the authors given to discount_specific_author
ScopedAuthors == {"Douglas Adams"}

\* the same, and the empty str
ScopedAuthorsOrEmpty == ScopedAuthors \cup {""}

\* ids of master_data.discounts
DiscountIds == {1, 2}

\* an id no discount of master_data.discounts has
UnknownId == 3

\* Discount.start_valid, Discount.end_valid (seconds)
start_valid == [d \in DiscountIds |->
    IF d = 1 THEN At(EpochYear, 1, 1, 0) ELSE At(EpochYear, 11, 24, 0)]

end_valid == [d \in DiscountIds |->
    IF d = 1 THEN At(EpochYear, 11, 24, 0) ELSE At(EpochYear, 12, 31, 0)]

\* the amount column of discounts.csv, in hundredths: 0.1, 0.2
Percent == [d \in DiscountIds |-> IF d = 1 THEN 10 ELSE 20]

\* Discount.amount = float(row["amount"])
amount == [d \in DiscountIds |-> FloatOfDecimal(Percent[d], 100)]

\* Discount.nb_usage as loaded
InitialUsage == [d \in DiscountIds |-> IF d = 1 THEN 2 ELSE 1]

\* Shipping.calculate_distance: kilometres, or NoDistance for None, or the
\* geocoder raising
NoDistance == -1
ProviderRaises == -2
Distances == {NoDistance, 878, ProviderRaises}

\* ------------------------------------------------------------------ state
VARIABLES
    now,              \* datetime.now()
    nb_usage,         \* Discount.nb_usage of each discount object
    author_specific,  \* Discount.author_specific of each discount object
    discounts,        \* Customer.discounts: list of discount references
    order,            \* Customer.order: None, or the list Order.books
    last,             \* the last operation and its outcome
    exhausted,        \* history: <<customer, id>> removed at nb_usage 0
    assigned          \* history: <<id, was it valid>> of every assignment

vars == <<now, nb_usage, author_specific, discounts, order, last, exhausted, assigned>>

\* --------------------------------------------------------------- Discount
\* a validity test that leaves both bounds of the window out
valid_exclusive(d, clock, i) ==
    (clock[i] > start_valid[d]) /\ (clock[i + 1] < end_valid[d])

\* Discount.valid, line 48: the first datetime.now() answers clock[i], the
\* second one, called when the first comparison is true, clock[i + 1]
valid(d, clock, i) ==
    (clock[i] >= start_valid[d]) /\ (clock[i + 1] <= end_valid[d])

\* how often line 48 calls datetime.now(): `and` leaves its right side out
\* when the left one is false
readings(d, clock, i) == IF clock[i] >= start_valid[d] THEN 2 ELSE 1

\* bool(discount.author_specific): None and the empty str are false
truth(a) == a # NoAuthor /\ a # <<"">>

\* --------------------------------------------------------------- Shipping
\* the literal 0.02
ShippingRate == FloatOfDecimal(2, 100)

\* Shipping.shipping_cost, from calculate_distance's result
shipping_cost(distance) ==
    IF distance # NoDistance THEN FMul(ShippingRate, FloatOfInt(distance)) ELSE FZero

\* ------------------------------------------------------------------ Order
\* filter(lambda discount: discount.valid and <test>, self.customer.discounts)
\* from entry k on, clock[i] being the next answer of datetime.now(); <test>
\* is discount.author_specific when scoped, not discount.author_specific else
RECURSIVE filtered(_, _, _, _, _, _)
filtered(held, au, clock, k, i, scoped) ==
    IF k > Len(held) THEN <<>>
    ELSE (IF valid(held[k], clock, i) /\ (truth(au[held[k]]) = scoped)
          THEN <<held[k]>> ELSE <<>>)
         \o filtered(held, au, clock, k + 1, i + readings(held[k], clock, i), scoped)

\* the index of the next answer of the clock when valid has been called for
\* the entries of held from k on, clock[i] being the next one before
RECURSIVE reading_after(_, _, _, _)
reading_after(held, clock, k, i) ==
    IF k > Len(held) THEN i
    ELSE reading_after(held, clock, k + 1, i + readings(held[k], clock, i))

\* line 109: the valid discounts with a true author_specific, in list order
author_specific_discounts(held, au, clock) == filtered(held, au, clock, 1, 1, TRUE)

\* the discounts with a false author_specific, whatever their validity
valid_discounts_unchecked(held, au, clock) ==
    LET Test(d) == ~truth(au[d])
    IN  SelectSeq(held, Test)

\* line 110: the valid discounts with a false author_specific, in list order;
\* the clock is read on from where line 109 left it
valid_discounts(held, au, clock) ==
    filtered(held, au, clock, 1, reading_after(held, clock, 1, 1), FALSE)

\* line 115: the first discount of asd for the book's author, or None
select_psd(asd, au, author) ==
    LET Test(d) == au[d] = <<author>>
        m == SelectSeq(asd, Test)
    IN  IF m = <<>> THEN NoneRef ELSE Head(m)

\* a removal that takes out the first entry of id d only
remove_discount_first(held, d) ==
    LET first == CHOOSE k \in 1..Len(held) :
                    held[k] = d /\ \A j \in 1..(k - 1) : held[j] # d
    IN  IF \E k \in 1..Len(held) : held[k] = d
        THEN SubSeq(held, 1, first - 1) \o SubSeq(held, first + 1, Len(held))
        ELSE held

\* a removal that removes nothing
remove_discount_kept(held, d) == held

\* lines 122, 130: customer.discounts without the entries of id d
remove_discount(held, d) ==
    LET Test(x) == x # d
    IN  SelectSeq(held, Test)

\* a use that counts nb_usage down only while it is above 0
use_discount_floor(st, d) ==
    LET n == IF st.nb[d] > 0 THEN st.nb[d] - 1 ELSE 0
    IN  [st EXCEPT !.nb = [st.nb EXCEPT ![d] = n],
                   !.ds = IF n = 0 THEN remove_discount(st.ds, d) ELSE st.ds]

\* lines 119-122, 127-130: one use of discount d
use_discount(st, d) ==
    LET n == st.nb[d] - 1
    IN  [st EXCEPT !.nb = [st.nb EXCEPT ![d] = n],
                   !.ds = IF n = 0 THEN remove_discount(st.ds, d) ELSE st.ds]

\* lines 114-115, 118-122: the loop over self.books, from line i on: the
\* discount of each line and its use (the prices are added up in lines_total)
RECURSIVE line_loop(_, _, _, _, _)
line_loop(books, i, asd, au, st) ==
    IF i > Len(books) THEN st
    ELSE LET psd == select_psd(asd, au, Book[books[i].book].author)
             noted == [st EXCEPT !.psds = Append(st.psds, psd)]
         IN  line_loop(books, i + 1, asd, au,
                       IF psd # NoneRef THEN use_discount(noted, psd) ELSE noted)

\* lines 125, 127-130: the loop over valid_discounts, from entry j on: the use
\* of each discount (the total is multiplied in discounted_total)
RECURSIVE general_loop(_, _, _)
general_loop(vd, j, st) ==
    IF j > Len(vd) THEN st
    ELSE general_loop(vd, j + 1, use_discount(st, vd[j]))

\* a line priced without its discount
line_price_full(line, psd) ==
    FMul(FMul(Book[line.book].price, FloatOfInt(1)), FloatOfInt(line.quantity))

\* lines 116-117: book.price * discount * quantity, discount 1 - psd.amount
\* or the int 1
line_price(line, psd) ==
    FMul(FMul(Book[line.book].price,
              IF psd # NoneRef THEN FSub(FloatOfInt(1), amount[psd]) ELSE FloatOfInt(1)),
         FloatOfInt(line.quantity))

\* lines 113, 117: total_price after the lines 1..i, line k with discount psds[k]
RECURSIVE lines_total(_, _, _)
lines_total(books, psds, i) ==
    IF i = 0 THEN FZero
    ELSE FAdd(lines_total(books, psds, i - 1), line_price(books[i], psds[i]))

\* line 126: total_price after the entries 1..j of valid_discounts
RECURSIVE discounted_total(_, _, _)
discounted_total(total, vd, j) ==
    IF j = 0 THEN total
    ELSE FMul(discounted_total(total, vd, j - 1), FSub(FloatOfInt(1), amount[vd[j]]))

\* lines 113-126: total_price when the loops are done
total_price_of(books, psds, vd) ==
    discounted_total(lines_total(books, psds, Len(books)), vd, Len(vd))

\* the orders, line discounts and general discounts of the explored calculations
PricingKeys ==
    UNION {{<<b, p, v>> : p \in [1..Len(b) -> DiscountIds \cup {NoneRef}],
                          v \in UNION {[1..n -> DiscountIds] : n \in 0..MaxHeld}} :
           b \in OrderChoices}

\* total_price_of, worked out once for each of them
TotalPrices == [k \in PricingKeys |-> total_price_of(k[1], k[2], k[3])]

\* lines 113-126: total_price when the loops are done
total_price(books, psds, vd) ==
    IF <<books, psds, vd>> \in PricingKeys THEN TotalPrices[<<books, psds, vd>>]
    ELSE total_price_of(books, psds, vd)

\* the int 50 of line 134
Threshold == FloatOfInt(FreeShippingThreshold)

\* lines 133-135: the shipping cost added to total_price
charged_shipping(total, distance) ==
    IF FGreater(total, Threshold) THEN FZero ELSE shipping_cost(distance)

\* line 136: the returned value, in cents: round() returns the float of them
returned_total(total, distance) ==
    Round2(FAdd(total, charged_shipping(total, distance)))

\* lines 133-136 for a total_price and an answer of the geocoder
settle_of(total, distance) ==
    [shipping |-> charged_shipping(total, distance),
     total |-> returned_total(total, distance)]

\* the totals and answers of the explored calculations
SettleKeys == {TotalPrices[k] : k \in PricingKeys} \X (Distances \ {ProviderRaises})

\* settle_of, worked out once for each of them
Settlements == [k \in SettleKeys |-> settle_of(k[1], k[2])]

\* lines 133-136 for a total_price and an answer of the geocoder
settle(total, distance) ==
    IF <<total, distance>> \in SettleKeys THEN Settlements[<<total, distance>>]
    ELSE settle_of(total, distance)

\* no call of Shipping.shipping_cost
NotCalled == [calls |-> 0, nb |-> <<>>, ds |-> <<>>]

\* line 133: the one call of Shipping.shipping_cost, made when the loops have
\* left the usage counters and the customer's list as in st
call_provider(st) == [calls |-> 1, nb |-> st.nb, ds |-> st.ds]

\* lines 133-136: what calculate_total_price leaves and returns when its loops
\* have left st and the total_price pre, `due` being settle(pre, distance)
outcome(st, vd, pre, distance, due) ==
    [status |-> IF distance = ProviderRaises THEN "ProviderError" ELSE "ok",
     nb |-> st.nb, ds |-> st.ds, pre |-> pre, psds |-> st.psds, general |-> vd,
     shipping |-> IF distance = ProviderRaises THEN FZero ELSE due.shipping,
     total |-> IF distance = ProviderRaises THEN -1 ELSE due.total,
     provider |-> call_provider(st)]

\* lines 113-136, the loops having left st and the total_price pre
priced(st, vd, pre, distance) == outcome(st, vd, pre, distance, settle(pre, distance))

\* lines 111-136, the list of line 110 being vd and the loops having left st
looped(books, st, vd, distance) ==
    priced(st, vd, total_price(books, st.psds, vd), distance)

\* Order.calculate_total_price for a customer holding `held`, datetime.now()
\* answering clock[1], clock[2], ... in turn, the geocoder answering
\* `distance`.  status "AttributeError": a None entry of customer.discounts
\* (line 109 raises before anything is changed); "ProviderError": the geocoder
\* raised at line 133, after the loops.  provider: how often
\* Shipping.shipping_cost was called, and the usage counters and the
\* customer's list at the time of the call.
calculate_total_price(books, held, nb, au, clock, distance) ==
    IF \E k \in 1..Len(held) : held[k] = NoneRef
    THEN [status |-> "AttributeError", nb |-> nb, ds |-> held, pre |-> FZero,
          shipping |-> FZero, psds |-> <<>>, general |-> <<>>, total |-> -1,
          provider |-> NotCalled]
    ELSE LET asd == author_specific_discounts(held, au, clock)
             vd == valid_discounts(held, au, clock)
             st0 == [nb |-> nb, ds |-> held, psds |-> <<>>]
         IN  looped(books, general_loop(vd, 1, line_loop(books, 1, asd, au, st0)),
                    vd, distance)

\* ------------------------------------------------------------------ Store
\* Store.select_discount: the discount object of that id, or None
select_discount(id) == IF id \in DiscountIds THEN id ELSE NoneRef

\* Store.select_customers: the customers whose location is exactly loc
select_customers(loc) == {c \in Customers : location[c] = loc}

\* customer.discounts.append(ref) for every customer of targets
append_to(ds, targets, ref) ==
    [c \in Customers |-> IF c \in targets THEN Append(ds[c], ref) ELSE ds[c]]

\* the customers signed up more than 365 days ago
one_year_customers_strict(clock) ==
    {CustomerList[k] : k \in {k \in 1..Len(CustomerList) :
        DateOf(clock[k]) - signup_date[CustomerList[k]] > TenureDays}}

\* line 247-248: the customers signed up 365 days ago or more, datetime.now()
\* called for each customer of master_data.customers in turn
one_year_customers(clock) ==
    {CustomerList[k] : k \in {k \in 1..Len(CustomerList) :
        DateOf(clock[k]) - signup_date[CustomerList[k]] >= TenureDays}}

\* Store.discount_one_year_customers
discount_one_year_customers(ds, id, clock) ==
    append_to(ds, one_year_customers(clock), select_discount(id))

\* a trigger date fixed to 24 November of the epoch year
is_black_friday_epoch_year(today) ==
    today = DateOrdinal(EpochYear, BlackFridayMonth, BlackFridayDay)

\* line 255: today == datetime(today.year, 11, 24).date()
is_black_friday(today) ==
    today = DateOrdinal(YearOf(today), BlackFridayMonth, BlackFridayDay)

\* Store.discount_black_friday
discount_black_friday(ds, id, t) ==
    IF is_black_friday(DateOf(t)) THEN append_to(ds, Customers, select_discount(id))
    ELSE ds

\* Store.discount_location
discount_location(ds, id, loc) ==
    append_to(ds, select_customers(Lower(loc)), select_discount(id))

\* the two rules in the other order: tenure first, Black Friday second
run_all_tenure_first(ds, clock) ==
    discount_black_friday(discount_one_year_customers(ds, 1, Tail(clock)), 2, clock[1])

\* Store.run_all_discount_rules: the clock is read once at line 254, then at
\* line 248 for each customer
run_all_discount_rules(ds, clock) ==
    discount_one_year_customers(discount_black_friday(ds, 2, clock[1]), 1, Tail(clock))

\* ------------------------------------------------------------- operations
RuleIds == DiscountIds \cup {UnknownId}

NoOrder == [placed |-> FALSE, books |-> <<>>]

\* no customer.discounts list longer than MaxHeld
Fits(ds) == \A c \in Customers : Len(ds[c]) <= MaxHeld

\* the record of an operation that is no pricing calculation
Outcome(op, arg, status) ==
    [op |-> op, arg |-> arg, customer |-> "", status |-> status, total |-> -1,
     pre |-> FZero, distance |-> NoDistance, shipping |-> FZero,
     psds |-> <<>>, general |-> <<>>, held |-> <<>>, clock |-> <<>>,
     provider |-> NotCalled]

\* the name an operation is recorded under: its own when named, else "other"
OpName(named, op) == IF named THEN op ELSE "other"

\* the arguments an operation is recorded with: its own when named
OpArg(named, arg) == IF named THEN arg ELSE <<>>

\* the discounts appended between the lists ds and ds2, each with its validity
\* at t, the clock's answer at the last reading made before the appends
Appended(ds, ds2, t) ==
    LET new == UNION {{ds2[c][k] : k \in (Len(ds[c]) + 1)..Len(ds2[c])} : c \in Customers}
    IN  {<<d, valid(d, <<t, t>>, 1)>> : d \in new \ {NoneRef}}

\* the assignment history after the lists went from ds to ds2, when it is kept
Recorded(track, ds, ds2, t) ==
    IF track THEN assigned \cup Appended(ds, ds2, t) ELSE assigned

Init ==
    /\ now = FirstInstant
    /\ nb_usage = InitialUsage
    /\ author_specific = [d \in DiscountIds |-> NoAuthor]
    /\ discounts = [c \in Customers |-> <<>>]
    /\ order = [c \in Customers |-> NoOrder]
    /\ last = Outcome("init", <<>>, "ok")
    /\ exhausted = {}
    /\ assigned = {}

\* time passes
Tick(instants) ==
    /\ \E t \in instants : t > now /\ now' = t
    /\ last' = Outcome("other", <<>>, "ok")
    /\ UNCHANGED <<nb_usage, author_specific, discounts, order, exhausted, assigned>>

\* what datetime.now() answers at its n calls during an operation: t at the
\* first j of them, t2 from then on
Readings(t, t2, j, n) == [i \in 1..n |-> IF i <= j THEN t ELSE t2]

\* the instants the clock may have reached when an operation started at t ends
Later(instants, t) == {t2 \in instants : t2 >= t}

\* the same for a calculation: t itself when the calculations are explored
\* with a clock that stays where it is during each of them
Ends(instants, drift, t) == IF drift THEN Later(instants, t) ELSE {t}

\* the number of readings after which the clock may go on during an operation
\* that reads it up to n times: between two of them, none when it stays at t
Turns(t, t2, n) == IF t2 = t THEN {0} ELSE 1..(n - 1)

\* the record of a rule that read the clock
OutcomeAt(op, arg, clock) == [Outcome(op, arg, "ok") EXCEPT !.clock = clock]

\* Store.discount_one_year_customers, the clock going from now to t2 after its
\* j-th reading; the appends of lines 249-250 come after the last reading
OneYear(id, t2, j, track, named) ==
    /\ LET Reads(clock, after) ==
               /\ Fits(after)
               /\ discounts' = after
               /\ last' = OutcomeAt(OpName(named, "discount_one_year_customers"),
                                    OpArg(named, <<id>>), OpArg(named, clock))
       IN  Reads(Readings(now, t2, j, Len(CustomerList)),
                 discount_one_year_customers(discounts, id,
                     Readings(now, t2, j, Len(CustomerList))))
    /\ now' = t2
    /\ assigned' = Recorded(track, discounts, discounts', t2)
    /\ UNCHANGED <<nb_usage, author_specific, order, exhausted>>

BlackFriday(id, track, named) ==
    /\ Fits(discount_black_friday(discounts, id, now))
    /\ discounts' = discount_black_friday(discounts, id, now)
    /\ assigned' = Recorded(track, discounts, discounts', now)
    /\ last' = Outcome(OpName(named, "discount_black_friday"), OpArg(named, <<id>>), "ok")
    /\ UNCHANGED <<now, nb_usage, author_specific, order, exhausted>>

LocationRule(id, loc, track, named) ==
    /\ Fits(discount_location(discounts, id, loc))
    /\ discounts' = discount_location(discounts, id, loc)
    /\ assigned' = Recorded(track, discounts, discounts', now)
    /\ last' = Outcome(OpName(named, "discount_location"), OpArg(named, <<id, loc>>), "ok")
    /\ UNCHANGED <<now, nb_usage, author_specific, order, exhausted>>

\* Store.discount_specific_author: line 268 raises on None, before any append
AuthorRule(id, author, track, named) ==
    /\ IF select_discount(id) = NoneRef
       THEN /\ last' = Outcome(OpName(named, "discount_specific_author"), OpArg(named, <<id, author>>), "AttributeError")
            /\ UNCHANGED <<author_specific, discounts, assigned>>
       ELSE /\ Fits(append_to(discounts, Customers, select_discount(id)))
            /\ author_specific' = [author_specific EXCEPT ![select_discount(id)] = <<author>>]
            /\ discounts' = append_to(discounts, Customers, select_discount(id))
            /\ assigned' = Recorded(track, discounts, discounts', now)
            /\ last' = Outcome(OpName(named, "discount_specific_author"), OpArg(named, <<id, author>>), "ok")
    /\ UNCHANGED <<now, nb_usage, order, exhausted>>

\* the assignment history after run_all_discount_rules: the appends of
\* discount_black_friday (lines 257-258) come after the reading of line 254,
\* the first one, those of discount_one_year_customers after the last one
RecordedRunAll(track, ds, ds2, t, t2) ==
    IF track
    THEN assigned \cup Appended(ds, discount_black_friday(ds, 2, t), t)
                  \cup Appended(discount_black_friday(ds, 2, t), ds2, t2)
    ELSE assigned

\* Store.run_all_discount_rules, the clock going from now to t2 after its j-th
\* reading
RunAll(t2, j, track) ==
    /\ LET Reads(clock, after) ==
               /\ Fits(after)
               /\ discounts' = after
               /\ last' = OutcomeAt("run_all_discount_rules", <<>>, clock)
       IN  Reads(Readings(now, t2, j, 1 + Len(CustomerList)),
                 run_all_discount_rules(discounts,
                     Readings(now, t2, j, 1 + Len(CustomerList))))
    /\ now' = t2
    /\ assigned' = RecordedRunAll(track, discounts, discounts', now, t2)
    /\ UNCHANGED <<nb_usage, author_specific, order, exhausted>>

\* Customer.place_order
PlaceOrder(c, books) ==
    /\ order' = [order EXCEPT ![c] = [placed |-> TRUE, books |-> books]]
    /\ last' = Outcome("other", <<>>, "ok")
    /\ UNCHANGED <<now, nb_usage, author_specific, discounts, exhausted, assigned>>

\* a removal that takes the ids gone from c's list out of every customer's list
after_pricing_everyone(ds, c, kept) ==
    LET gone == {ds[c][k] : k \in 1..Len(ds[c])} \ {kept[k] : k \in 1..Len(kept)}
        Test(x) == x \notin gone
    IN  [b \in Customers |-> IF b = c THEN kept ELSE SelectSeq(ds[b], Test)]

\* lines 122, 130: self.customer.discounts = ... rebinds the priced customer's list
after_pricing(ds, c, kept) == [ds EXCEPT ![c] = kept]

\* the ids of held that are no longer in kept
Dropped(held, kept) ==
    {held[k] : k \in 1..Len(held)} \ {kept[k] : k \in 1..Len(kept)}

\* c.order.calculate_total_price(), the clock going from now to t2 after its
\* j-th reading
Calc(c, distance, t2, j) ==
    /\ order[c].placed
    /\ \A d \in DiscountIds : nb_usage[d] > -MaxOveruse
    /\ LET Returns(clock, r) ==
               /\ nb_usage' = r.nb
               /\ discounts' = after_pricing(discounts, c, r.ds)
               /\ exhausted' = exhausted \cup {<<c, d>> : d \in Dropped(discounts[c], r.ds)}
               /\ last' = [op |-> "calculate_total_price", arg |-> <<>>, customer |-> c,
                           status |-> r.status, total |-> r.total, pre |-> r.pre,
                           distance |-> IF r.status = "AttributeError" THEN NoDistance
                                        ELSE distance,
                           shipping |-> r.shipping, psds |-> r.psds,
                           general |-> r.general, held |-> discounts[c],
                           clock |-> clock, provider |-> r.provider]
           Reads(clock) ==
               Returns(clock, calculate_total_price(order[c].books, discounts[c], nb_usage,
                                                    author_specific, clock, distance))
       IN  Reads(Readings(now, t2, j, 4 * Len(discounts[c])))
    /\ now' = t2
    /\ UNCHANGED <<author_specific, order, assigned>>

\* one operation: the rules called with an id of ids and an author of authors,
\* an order of orders placed, the clock moving to one of instants, between the
\* operations, between two readings of a rule and, with drift, between two
\* readings of a calculation
Step(ids, instants, authors, orders, track, named, drift) ==
    \/ Tick(instants)
    \/ \E id \in ids, t2 \in Later(instants, now) :
        \E j \in Turns(now, t2, Len(CustomerList)) : OneYear(id, t2, j, track, named)
    \/ \E id \in ids : BlackFriday(id, track, named)
    \/ \E id \in ids, loc \in LocationArgs : LocationRule(id, loc, track, named)
    \/ \E id \in ids, author \in authors : AuthorRule(id, author, track, named)
    \/ \E t2 \in Later(instants, now) :
        \E j \in Turns(now, t2, 1 + Len(CustomerList)) : RunAll(t2, j, track)
    \/ \E c \in Shoppers, books \in orders : PlaceOrder(c, books)
    \/ \E c \in Shoppers, distance \in Distances, t2 \in Ends(instants, drift, now) :
        \E j \in Turns(now, t2, 4 * Len(discounts[c])) : Calc(c, distance, t2, j)

Next == Step(RuleIds, Instants, ScopedAuthors, OrderChoices, FALSE, FALSE, FALSE)

Spec == Init /\ [][Next]_vars

\* the rules called with ids of the registry, the assignment history kept
NextAssigned == Step(DiscountIds, Instants, ScopedAuthors, FewOrders, TRUE, FALSE, FALSE)

SpecAssigned == Init /\ [][NextAssigned]_vars

\* the rules called with the Black Friday discount or an unknown id, over two
\* years, an author or the empty str, each rule recorded under its name
NextRules == Step({2, UnknownId}, InstantsTwoYears, ScopedAuthorsOrEmpty, FewOrders, FALSE, TRUE, FALSE)

SpecRules == Init /\ [][NextRules]_vars

\* the rules called with ids of the registry, on the days around 24 November,
\* one order placed, the clock going on during the calculations
NextClock == Step(DiscountIds, InstantsLater, ScopedAuthors, {<<H2, P1>>}, FALSE, FALSE, TRUE)

SpecClock == Init /\ [][NextClock]_vars

\* ----------------------------------------------------------------- claims
\* how often x is in seq
Count(seq, x) == Cardinality({k \in 1..Len(seq) : seq[k] = x})

Entries(seq) == {seq[k] : k \in 1..Len(seq)}

\* the last operation was a pricing calculation that got past line 110
Priced == last.op = "calculate_total_price" /\ last.status # "AttributeError"

\* the last operation was a pricing calculation that returned a total
Returned == last.op = "calculate_total_price" /\ last.status = "ok"

\* this step is a pricing calculation for customer c
CalcStep(c) == last'.op = "calculate_total_price" /\ last'.customer = c

\* how often the last pricing calculation used discount d
Uses(rec, d) == Count(rec.psds, d) + Count(rec.general, d)

\* nb_usage of d before the last pricing calculation
UsageBefore(d) == nb_usage[d] + Uses(last, d)

\* nb_usage of d after line i of the last pricing calculation
UsageAfterLine(d, i) == UsageBefore(d) - Count(SubSeq(last.psds, 1, i), d)

\* now is inside the validity window of d, both bounds included
InWindow(d) == start_valid[d] <= now /\ now <= end_valid[d]

\* the first entry of held that is in its window and scoped to author
FirstScoped(held, author) ==
    LET Test(d) == InWindow(d) /\ author_specific[d] = <<author>>
        m == SelectSeq(held, Test)
    IN  IF m = <<>> THEN NoneRef ELSE Head(m)

\* --- amounts of money as the claims state them: exact fractions <<n, d>> of
\* a cent, d > 0, in lowest terms
RECURSIVE GCD(_, _)
GCD(a, b) == IF b = 0 THEN a ELSE GCD(b, a % b)

Frac(n, d) == LET g == GCD(n, d) IN <<n \div g, d \div g>>

FracAdd(a, b) == Frac(a[1] * b[2] + b[1] * a[2], a[2] * b[2])

\* a * n / d
FracMul(a, n, d) == Frac(a[1] * n, a[2] * d)

\* the author of line i of the priced order
LineAuthor(i) == Book[order[last.customer].books[i].book].author

\* percent taken off line i: the percentage of the first in-window discount of
\* the list scoped to the line's author, 0 when there is none
LinePercentOff(i) ==
    LET d == FirstScoped(last.held, LineAuthor(i))
    IN  IF d = NoneRef THEN 0 ELSE Percent[d]

\* sum over the lines 1..i of price * quantity * (1 - percent off), in cents
RECURSIVE LineSum(_)
LineSum(i) ==
    IF i = 0 THEN <<0, 1>>
    ELSE LET line == order[last.customer].books[i]
         IN  FracAdd(LineSum(i - 1),
                     Frac(PriceCents[line.book] * line.quantity * (100 - LinePercentOff(i)),
                          100))

\* total times (1 - percent off) for each of the entries 1..k of the list that
\* is in its window and has no author
RECURSIVE TimesGeneral(_, _)
TimesGeneral(total, k) ==
    IF k = 0 THEN total
    ELSE LET d == last.held[k]
             before == TimesGeneral(total, k - 1)
         IN  IF InWindow(d) /\ author_specific[d] = NoAuthor
             THEN FracMul(before, 100 - Percent[d], 100)
             ELSE before

\* the total before shipping the claims give for the last calculation, exact
ExpectedPre ==
    TimesGeneral(LineSum(Len(order[last.customer].books)), Len(last.held))

\* that total is above, or below, 50 dollars
ExactAbove == ExpectedPre[1] > FreeShippingThreshold * 100 * ExpectedPre[2]

ExactBelow == ExpectedPre[1] < FreeShippingThreshold * 100 * ExpectedPre[2]

\* the provider's cost for the last calculation, exact: 2 cents a kilometre
ExactShipping ==
    IF last.distance \in {NoDistance, ProviderRaises} THEN <<0, 1>>
    ELSE <<2 * last.distance, 1>>

\* the last calculation added a shipping cost to the total
Charged == last.shipping # FZero

\* cents is the amount f rounded to a cent: at most half a cent away
NearestCent(cents, f) ==
    /\ 2 * (cents * f[2] - f[1]) <= f[2]
    /\ 2 * (f[1] - cents * f[2]) <= f[2]

\* the float x in millionths of a dollar, and the exact amount f in them (its
\* denominator divides 10000)
Micro(x) == RoundedAt(x, 6)

MicroOf(f) == f[1] * (10000 \div f[2])

\* C1: every discount's nb_usage stays an integer >= 0 in every reachable state.
C1_UsageNeverNegative == \A d \in DiscountIds : nb_usage[d] >= 0

\* C2: within one pricing calculation, a discount whose nb_usage reached 0 on
\* an order line is applied to no later line of that order.
C2_ExhaustedNotReapplied ==
    Priced =>
        \A i \in 1..Len(last.psds), j \in 1..Len(last.psds) :
            (i < j /\ last.psds[i] # NoneRef /\ UsageAfterLine(last.psds[i], i) = 0)
                => last.psds[j] # last.psds[i]

\* C3: a rule invoked with an id that is not in the registry fails and appends
\* nothing, so no customer ever holds a None entry.
C3_NoPhantomDiscount ==
    \A c \in Customers : NoneRef \notin Entries(discounts[c])

\* C4: a discount removed from a customer's list because its nb_usage reached 0
\* is never in that customer's list again.
C4_NeverReAdded ==
    \A p \in exhausted : p[2] \notin Entries(discounts[p[1]])

\* C5: customers given the same discount id hold the same instance.  A pricing
\* calculation for customer a lowers the nb_usage every holder sees by the
\* number of times it used the discount, changes no other customer's list, and
\* a discount it exhausts leaves a's list while every other holder keeps it.
C5_SharedInstance ==
    [][\A a \in Customers : CalcStep(a) =>
        /\ \A b \in Customers \ {a} : discounts'[b] = discounts[b]
        /\ \A d \in DiscountIds :
            /\ nb_usage'[d] = nb_usage[d] - Uses(last', d)
            /\ (nb_usage[d] >= 1 /\ nb_usage'[d] <= 0) =>
                /\ d \notin Entries(discounts'[a])
                /\ \A b \in Customers \ {a} :
                    d \in Entries(discounts[b]) => d \in Entries(discounts'[b])]_vars

\* C5 witness: john_doe's calculation used a discount down to 0 and lost it,
\* jane_roe still holds it.
C5_Witness ==
    /\ Priced
    /\ last.customer = "john_doe"
    /\ \E d \in DiscountIds :
        /\ Uses(last, d) >= 1
        /\ nb_usage[d] = 0
        /\ d \in Entries(last.held)
        /\ d \notin Entries(discounts["john_doe"])
        /\ d \in Entries(discounts["jane_roe"])

\* the calculation had a use for d: d is general, or the first in-window
\* discount of the list scoped to the author of some line of the order
Eligible(d) ==
    \/ author_specific[d] = NoAuthor
    \/ \E i \in 1..Len(order[last.customer].books) :
        /\ author_specific[d] = <<LineAuthor(i)>>
        /\ FirstScoped(last.held, LineAuthor(i)) = d

\* d was held, valid, with nb_usage 1 and amount > 0, before the last calculation
OneUseLeft(d) ==
    /\ d \in Entries(last.held)
    /\ InWindow(d)
    /\ UsageBefore(d) = 1
    /\ Percent[d] > 0

\* this step is the second of two calculations in a row for c, both returning
SecondCalc(c) ==
    /\ last.op = "calculate_total_price" /\ last.customer = c /\ last.status = "ok"
    /\ CalcStep(c) /\ last'.status = "ok"

\* C6 as stated: with a valid discount of nb_usage 1 and amount > 0 held, the
\* second of two calculations of the same order (the geocoder answering the
\* same both times) returns strictly more than the first, and the discount is
\* then absent from the customer's list.
C6_SecondTotalHigher ==
    [][\A c \in Customers, d \in DiscountIds :
        (SecondCalc(c) /\ last'.distance = last.distance /\ OneUseLeft(d)) =>
            /\ last'.total > last.total
            /\ d \notin Entries(discounts'[c])]_vars

\* the second calculation applies nothing new: each line gets the discount it
\* got in the first or none, and each general discount is applied at most as
\* often as in the first
NothingNew ==
    /\ \A i \in 1..Len(last'.psds) : last'.psds[i] \in {NoneRef, last.psds[i]}
    /\ \A e \in DiscountIds : Count(last'.general, e) <= Count(last.general, e)

\* C6 amended: with a valid discount of nb_usage 1 and amount > 0 held that
\* the order has a use for (a general one, or the first valid one of the list
\* scoped to the author of a line), the first of two calculations in a row of
\* the same order uses the discount and removes it from the customer's list,
\* the second does not use it and leaves it absent.  When the second applies
\* nothing new, its total before shipping is strictly higher than the first's;
\* when besides both add the same shipping cost, it returns no less than the
\* first, and strictly more when its total before shipping is higher by more
\* than a cent.
C6_SecondCallWithoutDiscount ==
    [][\A c \in Customers, d \in DiscountIds :
        (SecondCalc(c) /\ OneUseLeft(d) /\ Eligible(d)) =>
            /\ Uses(last, d) >= 1
            /\ d \notin Entries(discounts[c])
            /\ Uses(last', d) = 0
            /\ d \notin Entries(discounts'[c])
            /\ NothingNew =>
                /\ FGreater(last'.pre, last.pre)
                /\ last'.shipping = last.shipping =>
                    /\ last'.total >= last.total
                    /\ Micro(last'.pre) - Micro(last.pre) > 10000 =>
                        last'.total > last.total]_vars

\* C6 witness: the first calculation used, on a line by its author, an
\* author-scoped discount that had one use left and removed it; the same
\* order can be priced again.
C6_Witness ==
    /\ last.op = "calculate_total_price" /\ last.status = "ok"
    /\ order[last.customer].placed
    /\ \A d \in DiscountIds : nb_usage[d] > -MaxOveruse
    /\ \E d \in DiscountIds :
        /\ OneUseLeft(d)
        /\ author_specific[d] # NoAuthor
        /\ Eligible(d)
        /\ Count(last.psds, d) >= 1
        /\ d \notin Entries(discounts[last.customer])

\* d is held, valid and has author_specific unset
ValidGeneral(held, d) ==
    d \in Entries(held) /\ InWindow(d) /\ author_specific[d] = NoAuthor

\* C7 as stated: one pricing calculation leaves the nb_usage of a valid general
\* discount the customer holds exactly one lower.
C7_OneLower ==
    [][\A c \in Customers, d \in DiscountIds :
        (CalcStep(c) /\ last'.status = "ok" /\ ValidGeneral(discounts[c], d)) =>
            nb_usage'[d] = nb_usage[d] - 1]_vars

\* C7 amended: one pricing calculation lowers the nb_usage of a valid general
\* discount by the number of entries of it in the customer's list (by one when
\* it is held once); a calculation that raises on a None entry lowers nothing.
C7_LowerByEntries ==
    [][\A c \in Customers, d \in DiscountIds :
        (CalcStep(c) /\ ValidGeneral(discounts[c], d)) =>
            nb_usage'[d] = nb_usage[d] -
                (IF last'.status = "AttributeError" THEN 0 ELSE Count(discounts[c], d))]_vars

\* C7 witness: a calculation for a customer holding a valid general discount twice
C7_Witness ==
    /\ Priced
    /\ \E d \in DiscountIds :
        /\ ValidGeneral(last.held, d)
        /\ Count(last.held, d) = 2
        /\ Count(last.general, d) = 2

\* d is outside its validity window from the start of this step to its end
Stale(d) == d # NoneRef /\ (now' < start_valid[d] \/ now > end_valid[d])

Live(d) == ~Stale(d)

\* x is still in the list after this step
KeptEntry(x) == x \in Entries(discounts'[last'.customer])

\* the answers of the clock to the calls of valid for the entries of held from
\* k on that are not outside their window, clock[i] being the next answer
RECURSIVE LiveReadings(_, _, _, _)
LiveReadings(held, clock, k, i) ==
    IF k > Len(held) THEN <<>>
    ELSE LET n == readings(held[k], clock, i)
         IN  (IF Live(held[k]) THEN SubSeq(clock, i, i + n - 1) ELSE <<>>)
             \o LiveReadings(held, clock, k + 1, i + n)

\* what the clock answered in this step's calculation to the calls of valid
\* for those entries: at line 109, then at line 110
ClockOfLive(held, clock) ==
    LiveReadings(held, clock, 1, 1)
        \o LiveReadings(held, clock, 1, reading_after(held, clock, 1, 1))

\* this step's calculation came out as r
SameOutcome(r) ==
    /\ last'.status = r.status
    /\ last'.total = r.total
    /\ last'.pre = r.pre
    /\ last'.shipping = r.shipping

\* C8: a discount that is not valid at the time of a pricing calculation (from
\* its start to its end) is left untouched by it: its nb_usage is unchanged, it
\* stays in the customer's list at the same relative position (the new list is
\* the old one without the exhausted ids, every not-valid entry kept in order),
\* and the outcome is the one of the same calculation for the list without the
\* not-valid entries.
C8_InvalidUntouched ==
    [][\A c \in Customers : CalcStep(c) =>
        /\ \A d \in Entries(discounts[c]) : Stale(d) => nb_usage'[d] = nb_usage[d]
        /\ discounts'[c] = SelectSeq(discounts[c], KeptEntry)
        /\ SelectSeq(discounts'[c], Stale) = SelectSeq(discounts[c], Stale)
        /\ last'.status # "AttributeError" =>
            SameOutcome(calculate_total_price(order[c].books, SelectSeq(discounts[c], Live),
                                              nb_usage, author_specific,
                                              ClockOfLive(discounts[c], last'.clock),
                                              last'.distance))]_vars

\* the instants the clock answered during the last calculation
ReadingsOf(rec) == {rec.clock[k] : k \in 1..Len(rec.clock)}

\* C8 witness: during a calculation the clock went on; a valid discount listed
\* after a discount that had expired before was used and removed, the expired
\* one is still first in the list.
C8_Witness ==
    /\ Priced
    /\ Len(last.held) = 2
    /\ Cardinality(ReadingsOf(last)) = 2
    /\ \A t \in ReadingsOf(last) : t > end_valid[last.held[1]]
    /\ Uses(last, last.held[2]) >= 1
    /\ discounts[last.customer] = <<last.held[1]>>

\* C9: a pricing calculation applies a held discount exactly when now is in
\* [start_valid, end_valid], both bounds included, at the time of the
\* calculation (and the calculation has a use for it), whatever its validity
\* was when it was assigned.
C9_ValidityAtPricingTime ==
    Priced =>
        \A d \in DiscountIds :
            Uses(last, d) >= 1 <=>
                (d \in Entries(last.held) /\ InWindow(d) /\ Eligible(d))

\* C9 witness: after end_valid of discount 1, a calculation applied discount 2,
\* only ever assigned before its window opened, and did not apply discount 1,
\* only ever assigned while valid; discount 2 is still inside its window.
C9_Witness ==
    /\ Priced
    /\ now > end_valid[1]
    /\ 1 \in Entries(last.held) /\ Uses(last, 1) = 0
    /\ <<1, TRUE>> \in assigned /\ <<1, FALSE>> \notin assigned
    /\ 2 \in Entries(last.held) /\ Uses(last, 2) >= 1
    /\ <<2, FALSE>> \in assigned /\ <<2, TRUE>> \notin assigned

\* this step is run_all_discount_rules and its first reading of the clock, the
\* one of discount_black_friday, is on 24 November
RunAllOnBlackFriday ==
    last'.op = "run_all_discount_rules" /\ is_black_friday(DateOf(last'.clock[1]))

\* days between c's signup date and today
DaysSinceSignup(c) == DateOf(now) - signup_date[c]

\* days between the signup date of customer k of master_data.customers and
\* the day read from the clock for that customer, the readings of the step's
\* tenure rule starting at clock[first]
TenureDaysRead(k, first) == DateOf(last'.clock[first + k - 1]) - signup_date[CustomerList[k]]

\* C10 as stated: run_all_discount_rules runs the tenure rule (id 1) first and
\* the Black Friday rule (id 2) second: on 24 November every customer signed
\* up 365 days ago or more gets discount 1 and then discount 2.
C10_TenureFirst ==
    [][RunAllOnBlackFriday =>
        \A k \in 1..Len(CustomerList) :
            TenureDaysRead(k, 2) >= 365 =>
                discounts'[CustomerList[k]] = discounts[CustomerList[k]] \o <<1, 2>>]_vars

\* C10 amended: run_all_discount_rules runs the Black Friday rule (id 2) first
\* and the tenure rule (id 1) second: on 24 November every customer signed up
\* 365 days ago or more gets discount 2 and then discount 1, every other
\* customer discount 2 alone.
C10_BlackFridayFirst ==
    [][RunAllOnBlackFriday =>
        \A k \in 1..Len(CustomerList) :
            discounts'[CustomerList[k]] = discounts[CustomerList[k]] \o
                (IF TenureDaysRead(k, 2) >= 365 THEN <<2, 1>> ELSE <<2>>)]_vars

\* C10 witness: run_all_discount_rules has just run on 24 November for
\* john_doe, signed up 365 days before.
C10_Witness ==
    /\ last.op = "run_all_discount_rules"
    /\ is_black_friday(DateOf(now))
    /\ DaysSinceSignup("john_doe") >= 365
    /\ discounts["john_doe"] = <<2, 1>>
    /\ discounts["jane_roe"] = <<2>>

\* this step is the rule op, called with the arguments last'.arg
RuleStep(op) == last'.op = op

\* C11: discount_location appends the discount to exactly the customers whose
\* location equals the target when both are compared without regard to letter
\* case, and to no other customer.
C11_CaseInsensitive ==
    [][RuleStep("discount_location") =>
        \A c \in Customers :
            discounts'[c] =
                IF Lower(location[c]) = Lower(last'.arg[2])
                THEN Append(discounts[c], select_discount(last'.arg[1]))
                ELSE discounts[c]]_vars

\* C12: shipping is waived exactly when the total before shipping is strictly
\* above 50: at 50.00 or less the returned total is the total plus the
\* provider's cost, to the cent, above 50 it is the total alone, to the cent,
\* whatever the provider returned.
C12_WaivedAboveFifty ==
    Returned =>
        IF ExactAbove
        THEN ~Charged /\ NearestCent(last.total, ExpectedPre)
        ELSE /\ last.distance # NoDistance => Charged
             /\ NearestCent(last.total, FracAdd(ExpectedPre, ExactShipping))

\* C13: a pricing calculation that got as far as the shipping provider always
\* returns a total, whatever the provider's outcome: a provider that fails or
\* cannot resolve a location counts as a shipping cost of 0.
C13_AlwaysReturns ==
    Priced =>
        /\ last.status = "ok"
        /\ last.distance \in {NoDistance, ProviderRaises} =>
            ~Charged /\ NearestCent(last.total, ExpectedPre)

\* discount d reached nb_usage 0 on a line before line i of the last calculation
ExhaustedBefore(d, i) ==
    \E k \in 1..(i - 1) : last.psds[k] = d /\ UsageAfterLine(d, k) = 0

\* the customer's list when line i of the last calculation was priced
ListAtLine(i) ==
    LET Test(d) == ~ExhaustedBefore(d, i)
    IN  SelectSeq(last.held, Test)

\* C14: each order line gets at most one author-scoped discount: the first one,
\* in the order of the customer's list, that is valid and scoped to the line's
\* author (none when there is none); a discount scoped to another author is
\* never the one applied.
C14_FirstInList ==
    Priced =>
        \A i \in 1..Len(last.psds) :
            /\ last.psds[i] = FirstScoped(ListAtLine(i), LineAuthor(i))
            /\ last.psds[i] # NoneRef => author_specific[last.psds[i]] = <<LineAuthor(i)>>

\* the shipping cost that is not waived, the waiver decided on the exact total
ExpectedShipping == IF ExactAbove THEN <<0, 1>> ELSE ExactShipping

\* the shipping cost the last calculation added, exact
ChargedShipping == IF Charged THEN ExactShipping ELSE <<0, 1>>

\* C15 as stated: the total before shipping is the sum of the discounted line
\* prices times (1 - amount) for each valid general discount held, and the
\* returned value is that total plus the shipping cost that is not waived.
C15_TotalPlusShipping ==
    /\ Priced => Micro(last.pre) = MicroOf(ExpectedPre)
    /\ Returned => <<last.total, 1>> = FracAdd(ExpectedPre, ExpectedShipping)

\* C15 amended: the total before shipping is, to the millionth of a dollar, the
\* sum of the discounted line prices times (1 - amount) for each valid general
\* entry of the list; the returned value is that total plus the shipping cost
\* added, to the cent; the shipping cost is waived when the exact total is
\* above 50 and added when it is below.
C15_RoundedTotalPlusShipping ==
    /\ Priced => Micro(last.pre) = MicroOf(ExpectedPre)
    /\ Returned =>
        /\ NearestCent(last.total, FracAdd(ExpectedPre, ChargedShipping))
        /\ ExactAbove => ~Charged
        /\ (ExactBelow /\ last.distance # NoDistance) => Charged

\* C15 witness: a calculation with a line discount and a general discount that
\* returned a total before shipping with its fraction of a cent rounded away.
C15_Witness ==
    /\ Returned
    /\ \E i \in 1..Len(last.psds) : last.psds[i] # NoneRef
    /\ last.general # <<>>
    /\ ExpectedPre[2] # 1
    /\ NearestCent(last.total, ExpectedPre)

\* now is on a 24 November
OnNov24 == \E y \in EpochYear..(EpochYear + 1) : DateOf(now) = DateOrdinal(y, 11, 24)

\* C16: discount_black_friday appends the discount to every customer when
\* today is 24 November of the current year, and on any other date changes no
\* customer's list.
C16_BlackFridayOnly ==
    [][RuleStep("discount_black_friday") =>
        IF OnNov24
        THEN \A c \in Customers :
                discounts'[c] = Append(discounts[c], select_discount(last'.arg[1]))
        ELSE discounts' = discounts]_vars

\* C16 witness: discount_black_friday(2) has just run on 24 November of the
\* year after the epoch year and both customers got discount 2.
C16_Witness ==
    /\ last.op = "discount_black_friday"
    /\ last.arg = <<2>>
    /\ now = At(EpochYear + 1, 11, 24, 18)
    /\ \A c \in Customers :
        discounts[c] # <<>> /\ discounts[c][Len(discounts[c])] = 2

\* C17: discount_one_year_customers appends the discount to a customer exactly
\* when today - signup_date is at least 365 days (at 365 days yes, at 364 days
\* no), today being the day the rule reads from the clock for that customer;
\* the list of every other customer is unchanged.
C17_TenureAtLeast365 ==
    [][RuleStep("discount_one_year_customers") =>
        \A k \in 1..Len(CustomerList) :
            discounts'[CustomerList[k]] =
                IF TenureDaysRead(k, 1) >= 365
                THEN Append(discounts[CustomerList[k]], select_discount(last'.arg[1]))
                ELSE discounts[CustomerList[k]]]_vars

\* C17 witness: discount_one_year_customers(2) has just run when john_doe is
\* at exactly 365 days and jane_roe below: john_doe alone got the discount.
C17_Witness ==
    /\ last.op = "discount_one_year_customers"
    /\ last.arg = <<2>>
    /\ DaysSinceSignup("john_doe") = 365
    /\ DaysSinceSignup("jane_roe") < 365
    /\ discounts["john_doe"] = <<2>>
    /\ discounts["jane_roe"] = <<>>

\* the author of line i of c's order
AuthorOfLine(c, i) == Book[order[c].books[i].book].author

\* d is the first in-window entry of c's list scoped to author a
FirstFor(c, d, a) == FirstScoped(discounts[c], a) = d

\* C18: discount_specific_author sets author_specific on the discount object
\* and appends it to every customer.  From then on a pricing calculation for
\* any holder, whichever rule gave it to that holder, treats it as
\* author-scoped: it is never applied to the order total, it is applied to a
\* line only when the line's author is its author, and it is applied to every
\* such line when it is the first valid one of the list for that author.
C18_ScopedForEveryHolder ==
    [][/\ (RuleStep("discount_specific_author") /\ last'.status = "ok") =>
            /\ author_specific' =
                [author_specific EXCEPT ![last'.arg[1]] = <<last'.arg[2]>>]
            /\ \A c \in Customers : discounts'[c] = Append(discounts[c], last'.arg[1])
       /\ \A c \in Customers, d \in DiscountIds :
            (/\ CalcStep(c) /\ last'.status # "AttributeError"
             /\ d \in Entries(discounts[c])
             /\ author_specific[d] # NoAuthor) =>
                /\ Count(last'.general, d) = 0
                /\ \A i \in 1..Len(order[c].books) :
                    /\ last'.psds[i] = d => <<AuthorOfLine(c, i)>> = author_specific[d]
                    /\ (<<AuthorOfLine(c, i)>> = author_specific[d] /\ FirstFor(c, d, AuthorOfLine(c, i)))
                        => last'.psds[i] = d]_vars

\* C19: every pricing calculation calls the shipping cost provider exactly
\* once, when every discount application and usage decrement of the
\* calculation has been made, also when the total before shipping is above 50
\* and the cost is waived.
C19_ProviderCalledOnce ==
    last.op = "calculate_total_price" =>
        /\ last.provider.calls = 1
        /\ last.provider.nb = nb_usage
        /\ last.provider.ds = discounts[last.customer]

\* this step took nb_usage of d from above 0 to 0 or below
HitZero(d) == d # NoneRef /\ nb_usage[d] >= 1 /\ nb_usage'[d] <= 0

\* d did not reach 0 in this step
NotHitZero(d) == ~HitZero(d)

\* C20: a pricing calculation changes only usage counters and the priced
\* customer's list.  That list afterwards is the list before without every
\* entry of an id whose nb_usage reached 0, the other entries in their order;
\* every other customer's list, every order (its lines and the customer's
\* reference to it) and the author scopes are unchanged.
C20_PricingFrame ==
    [][\A c \in Customers : CalcStep(c) =>
        /\ discounts'[c] = SelectSeq(discounts[c], NotHitZero)
        /\ Len(discounts'[c]) <= Len(discounts[c])
        /\ \A d \in DiscountIds : HitZero(d) => d \in Entries(discounts[c])
        /\ \A b \in Customers \ {c} : discounts'[b] = discounts[b]
        /\ order' = order
        /\ author_specific' = author_specific]_vars

\* C20 witness: john_doe held one discount twice, his calculation took it to 0
\* and both entries left his list, his order is as it was.
C20_Witness ==
    /\ Priced
    /\ last.customer = "john_doe"
    /\ order["john_doe"].placed
    /\ \E d \in DiscountIds :
        /\ last.held = <<d, d>>
        /\ UsageBefore(d) >= 1
        /\ nb_usage[d] <= 0
        /\ discounts["john_doe"] = <<>>

====
